---- MODULE Spec2Model ----
(***************************************************************************)
(* reki: an undo stack.  A State object holds the current value, the       *)
(* options and two arrays of Command objects (undos, redos).  The four     *)
(* transitions execute, undo, redo and clear take a State and return a     *)
(* State.  Arrays are JavaScript objects: a State holds a reference to     *)
(* each of its arrays, `[...a, c]` and `[]` allocate a new array, and      *)
(* `a.pop()` changes the array `a` refers to, for every holder of that     *)
(* reference.  The arrays therefore live in a heap.                        *)
(*                                                                         *)
(* The caller threads one variable through the calls, as the README and    *)
(* the tests do (`state = undo(state)`); when a callback throws, the       *)
(* assignment does not happen and the caller still holds the input State.  *)
(* Every execute is given a newly constructed Command object, as at every  *)
(* call site of the README and of the tests; `id` is the object identity.  *)
(***************************************************************************)
EXTENDS Integers, Sequences, FiniteSets, TLC

VARIABLES
    state,      \* the State object the caller holds
    heap,       \* array reference -> the array's elements
    nextId,     \* identity of the next Command object constructed
    call,       \* the most recent call: its input, what it invoked, its outcome
    prev,       \* the call before that
    evicted,    \* ids of the commands execute shifted off the front of undos
    created,    \* the arguments createStack was called with
    readme,     \* how many steps of the README example the calls so far are
    reuse,      \* kept: the caller's variable still holds the State object the
                \* most recent call was made on; again: that call was made on
                \* the State object the call before it was made on
    progress    \* how far the calls so far follow the maxStackSize test:
                \* m executes, then u undos, then r redos, then an execute

vars == <<state, heap, nextId, call, prev, evicted, created, readme, reuse,
          progress>>

----------------------------------------------------------------------------
(* Bounds of the model *)

MaxCmds == 3        \* Command objects constructed in one behaviour
MaxN == 2           \* largest explicit maxStackSize
MaxAmount == 3      \* largest amount of an increment command
MaxTestN == 3       \* largest maxStackSize of the maxStackSize test
MaxTestCmds == 5    \* Command objects constructed in the maxStackSize test

(* Program constant *)
DefaultMaxStackSize == 10

\* the values callbacks return and stacks are created with: the transitions
\* only pass them on, two are enough to tell one value from another
Values == {0, 1}
Refs == 1..4
NoOptions == [set |-> FALSE, maxStackSize |-> 0]
OptionsInputs == {NoOptions} \cup {[set |-> TRUE, maxStackSize |-> n] : n \in 0..MaxN}

----------------------------------------------------------------------------
(* Callbacks and commands *)

\* () => ({ value: 20 }): a closure returning a fixed value
Const(v) == [kind |-> "const", v |-> v]

\* () => ({ value: state.current.value + amount }): a closure over the
\* caller's `state` variable
Rel(d) == [kind |-> "rel", v |-> d]

\* the value a callback returns when invoked while the caller's variable
\* holds a State whose current is cur
Call(cb, cur) == IF cb.kind = "const" THEN cb.v ELSE cur + cb.v

Command(id, e, u) == [id |-> id, execute |-> e, undo |-> u]

NoCommand == Command(0, Const(0), Const(0))

----------------------------------------------------------------------------
(* JavaScript helpers *)

\* truthiness of a number in `a && b`
Truthy(n) == n # 0

Last(s) == s[Len(s)]
Front(s) == SubSeq(s, 1, Len(s) - 1)

\* Array.prototype.shift on a non-empty array: removes the first element
shift(stack) == Tail(stack)

Min(S) == CHOOSE x \in S : \A y \in S : x <= y

\* references not held by State s: where `[...]` and `[]` allocate
Fresh1(s) == Min(Refs \ {s.undos, s.redos})
Fresh2(s) == Min(Refs \ {s.undos, s.redos, Fresh1(s)})

\* the value of a State as read through a reference to it
Deep(s, h) ==
    [current |-> s.current, options |-> s.options,
     undos |-> h[s.undos], redos |-> h[s.redos]]

Ids(seq) == {seq[i].id : i \in 1..Len(seq)}

Invocation(command, fn) == [id |-> command.id, fn |-> fn]

----------------------------------------------------------------------------
(* createStack *)

createStack(initial, options) ==
    [options |-> [maxStackSize |->
                    IF options.set THEN options.maxStackSize
                    ELSE DefaultMaxStackSize],
     current |-> initial,
     undos |-> 1,
     redos |-> 2]

----------------------------------------------------------------------------
(* execute *)

\* mutant: the push never evicts
executeStack_noShift(undos, command, max) == Append(undos, command)

\* mutant: the eviction removes the newest entry (pop) instead of the oldest
executeStack_pop(undos, command, max) ==
    LET stack == Append(undos, command)
    IN  IF Truthy(max) /\ Len(stack) > max THEN Front(stack) ELSE stack

\* const stack = [...state.undos, command]; if (max && stack.length > max) stack.shift()
executeStack(undos, command, max) ==
    LET stack == Append(undos, command)
    IN  IF Truthy(max) /\ Len(stack) > max THEN shift(stack) ELSE stack

\* mutant: the redo stack survives a new execution
execute_keepRedos(h, s, command, throws) ==
    IF throws
    THEN [heap |-> h, threw |-> TRUE, ret |-> s, command |-> command,
          invoked |-> <<Invocation(command, "execute")>>]
    ELSE LET current == Call(command.execute, s.current)
             stack == executeStack(h[s.undos], command, s.options.maxStackSize)
             ru == Fresh1(s)
         IN  [heap |-> [h EXCEPT ![ru] = stack],
              threw |-> FALSE,
              ret |-> [s EXCEPT !.current = current, !.undos = ru],
              command |-> command,
              invoked |-> <<Invocation(command, "execute")>>]

\* mutant: the returned State keeps the current of the input
execute_keepsCurrent(h, s, command, throws) ==
    IF throws
    THEN [heap |-> h, threw |-> TRUE, ret |-> s, command |-> command,
          invoked |-> <<Invocation(command, "execute")>>]
    ELSE LET stack == executeStack(h[s.undos], command, s.options.maxStackSize)
             ru == Fresh1(s)
             rr == Fresh2(s)
         IN  [heap |-> [h EXCEPT ![ru] = stack, ![rr] = <<>>],
              threw |-> FALSE,
              ret |-> [s EXCEPT !.undos = ru, !.redos = rr],
              command |-> command,
              invoked |-> <<Invocation(command, "execute")>>]

\* execute(state, command).  throws: whether command.execute() throws.
\* The result: the heap after the call, whether the call threw, the State
\* returned (ret, meaningless when it threw), the callbacks invoked.
execute(h, s, command, throws) ==
    IF throws
    THEN [heap |-> h, threw |-> TRUE, ret |-> s, command |-> command,
          invoked |-> <<Invocation(command, "execute")>>]
    ELSE LET current == Call(command.execute, s.current)
             stack == executeStack(h[s.undos], command, s.options.maxStackSize)
             ru == Fresh1(s)
             rr == Fresh2(s)
         IN  [heap |-> [h EXCEPT ![ru] = stack, ![rr] = <<>>],
              threw |-> FALSE,
              ret |-> [s EXCEPT !.current = current, !.undos = ru, !.redos = rr],
              command |-> command,
              invoked |-> <<Invocation(command, "execute")>>]

----------------------------------------------------------------------------
(* undo *)

\* mutant: the eviction test is off by one (>= for >)
undoStack_offByOne(redos, command, max) ==
    LET stack == Append(redos, command)
    IN  IF Truthy(max) /\ Len(stack) >= max THEN shift(stack) ELSE stack

\* const stack = [...state.redos, command]; if (max && stack.length > max) stack.shift()
undoStack(redos, command, max) ==
    LET stack == Append(redos, command)
    IN  IF Truthy(max) /\ Len(stack) > max THEN shift(stack) ELSE stack

\* mutant: an empty undo stack returns a State with the redo stack reset
undo_emptyResets(h, s, throws) ==
    IF Len(h[s.undos]) = 0
    THEN [heap |-> [h EXCEPT ![Fresh1(s)] = <<>>], threw |-> FALSE,
          ret |-> [s EXCEPT !.redos = Fresh1(s)], command |-> NoCommand,
          invoked |-> <<>>]
    ELSE LET command == Last(h[s.undos])
             h1 == [h EXCEPT ![s.undos] = Front(@)]
         IN  IF throws
             THEN [heap |-> h1, threw |-> TRUE, ret |-> s, command |-> command,
                   invoked |-> <<Invocation(command, "undo")>>]
             ELSE LET current == Call(command.undo, s.current)
                      stack == undoStack(h1[s.redos], command, s.options.maxStackSize)
                      rr == Fresh1(s)
                  IN  [heap |-> [h1 EXCEPT ![rr] = stack],
                       threw |-> FALSE,
                       ret |-> [s EXCEPT !.current = current, !.redos = rr],
                       command |-> command,
                       invoked |-> <<Invocation(command, "undo")>>]

\* mutant: undo invokes the forward callback of the popped command
undo_callsExecute(h, s, throws) ==
    IF Len(h[s.undos]) = 0
    THEN [heap |-> h, threw |-> FALSE, ret |-> s, command |-> NoCommand,
          invoked |-> <<>>]
    ELSE LET command == Last(h[s.undos])
             h1 == [h EXCEPT ![s.undos] = Front(@)]
         IN  IF throws
             THEN [heap |-> h1, threw |-> TRUE, ret |-> s, command |-> command,
                   invoked |-> <<Invocation(command, "execute")>>]
             ELSE LET current == Call(command.execute, s.current)
                      stack == undoStack(h1[s.redos], command, s.options.maxStackSize)
                      rr == Fresh1(s)
                  IN  [heap |-> [h1 EXCEPT ![rr] = stack],
                       threw |-> FALSE,
                       ret |-> [s EXCEPT !.current = current, !.redos = rr],
                       command |-> command,
                       invoked |-> <<Invocation(command, "execute")>>]

\* mutant: undo reads the last entry of undos and leaves it there
undo_peeks(h, s, throws) ==
    IF Len(h[s.undos]) = 0
    THEN [heap |-> h, threw |-> FALSE, ret |-> s, command |-> NoCommand,
          invoked |-> <<>>]
    ELSE LET command == Last(h[s.undos])
         IN  IF throws
             THEN [heap |-> h, threw |-> TRUE, ret |-> s, command |-> command,
                   invoked |-> <<Invocation(command, "undo")>>]
             ELSE LET current == Call(command.undo, s.current)
                      stack == undoStack(h[s.redos], command, s.options.maxStackSize)
                      rr == Fresh1(s)
                  IN  [heap |-> [h EXCEPT ![rr] = stack],
                       threw |-> FALSE,
                       ret |-> [s EXCEPT !.current = current, !.redos = rr],
                       command |-> command,
                       invoked |-> <<Invocation(command, "undo")>>]

\* undo(state).  throws: whether command.undo() throws.
\* state.undos.pop() removes the last element of the array the input State
\* refers to; the returned State refers to that same array (undos: state.undos).
\* `if (!command) return state` cannot be taken: the array is non-empty and
\* holds objects.
undo(h, s, throws) ==
    IF Len(h[s.undos]) = 0
    THEN [heap |-> h, threw |-> FALSE, ret |-> s, command |-> NoCommand,
          invoked |-> <<>>]
    ELSE LET command == Last(h[s.undos])
             h1 == [h EXCEPT ![s.undos] = Front(@)]
         IN  IF throws
             THEN [heap |-> h1, threw |-> TRUE, ret |-> s, command |-> command,
                   invoked |-> <<Invocation(command, "undo")>>]
             ELSE LET current == Call(command.undo, s.current)
                      stack == undoStack(h1[s.redos], command, s.options.maxStackSize)
                      rr == Fresh1(s)
                  IN  [heap |-> [h1 EXCEPT ![rr] = stack],
                       threw |-> FALSE,
                       ret |-> [s EXCEPT !.current = current, !.redos = rr],
                       command |-> command,
                       invoked |-> <<Invocation(command, "undo")>>]

----------------------------------------------------------------------------
(* redo *)

\* mutant: the redone command goes to the front of the undo stack
redoStack_unshift(undos, command, max) ==
    LET stack == <<command>> \o undos
    IN  IF Truthy(max) /\ Len(stack) > max THEN shift(stack) ELSE stack

\* const stack = [...state.undos, command]; if (max && stack.length > max) stack.shift()
redoStack(undos, command, max) ==
    LET stack == Append(undos, command)
    IN  IF Truthy(max) /\ Len(stack) > max THEN shift(stack) ELSE stack

\* mutant: redo takes the oldest entry of the redo stack (shift for pop)
redo_takesOldest(h, s, throws) ==
    IF Len(h[s.redos]) = 0
    THEN [heap |-> h, threw |-> FALSE, ret |-> s, command |-> NoCommand,
          invoked |-> <<>>]
    ELSE LET command == Head(h[s.redos])
             h1 == [h EXCEPT ![s.redos] = Tail(@)]
         IN  IF throws
             THEN [heap |-> h1, threw |-> TRUE, ret |-> s, command |-> command,
                   invoked |-> <<Invocation(command, "execute")>>]
             ELSE LET current == Call(command.execute, s.current)
                      stack == redoStack(h1[s.undos], command, s.options.maxStackSize)
                      ru == Fresh1(s)
                  IN  [heap |-> [h1 EXCEPT ![ru] = stack],
                       threw |-> FALSE,
                       ret |-> [s EXCEPT !.current = current, !.undos = ru],
                       command |-> command,
                       invoked |-> <<Invocation(command, "execute")>>]

\* mutant: redo invokes the inverse callback of the popped command
redo_callsUndo(h, s, throws) ==
    IF Len(h[s.redos]) = 0
    THEN [heap |-> h, threw |-> FALSE, ret |-> s, command |-> NoCommand,
          invoked |-> <<>>]
    ELSE LET command == Last(h[s.redos])
             h1 == [h EXCEPT ![s.redos] = Front(@)]
         IN  IF throws
             THEN [heap |-> h1, threw |-> TRUE, ret |-> s, command |-> command,
                   invoked |-> <<Invocation(command, "undo")>>]
             ELSE LET current == Call(command.undo, s.current)
                      stack == redoStack(h1[s.undos], command, s.options.maxStackSize)
                      ru == Fresh1(s)
                  IN  [heap |-> [h1 EXCEPT ![ru] = stack],
                       threw |-> FALSE,
                       ret |-> [s EXCEPT !.current = current, !.undos = ru],
                       command |-> command,
                       invoked |-> <<Invocation(command, "undo")>>]

\* redo(state).  throws: whether command.execute() throws.
\* state.redos.pop() removes the last element of the array the input State
\* refers to; the returned State refers to that same array (redos: state.redos).
redo(h, s, throws) ==
    IF Len(h[s.redos]) = 0
    THEN [heap |-> h, threw |-> FALSE, ret |-> s, command |-> NoCommand,
          invoked |-> <<>>]
    ELSE LET command == Last(h[s.redos])
             h1 == [h EXCEPT ![s.redos] = Front(@)]
         IN  IF throws
             THEN [heap |-> h1, threw |-> TRUE, ret |-> s, command |-> command,
                   invoked |-> <<Invocation(command, "execute")>>]
             ELSE LET current == Call(command.execute, s.current)
                      stack == redoStack(h1[s.undos], command, s.options.maxStackSize)
                      ru == Fresh1(s)
                  IN  [heap |-> [h1 EXCEPT ![ru] = stack],
                       threw |-> FALSE,
                       ret |-> [s EXCEPT !.current = current, !.undos = ru],
                       command |-> command,
                       invoked |-> <<Invocation(command, "execute")>>]

----------------------------------------------------------------------------
(* clear *)

\* mutant: clear keeps the redo stack
clear_keepRedos(h, s) ==
    [heap |-> [h EXCEPT ![Fresh1(s)] = <<>>],
     threw |-> FALSE,
     ret |-> [current |-> s.current, options |-> s.options,
              undos |-> Fresh1(s), redos |-> s.redos],
     command |-> NoCommand,
     invoked |-> <<>>]

\* mutant: clear builds the State as createStack(state.current) would, with
\* the default options
clear_defaultOptions(h, s) ==
    [heap |-> [h EXCEPT ![Fresh1(s)] = <<>>, ![Fresh2(s)] = <<>>],
     threw |-> FALSE,
     ret |-> [current |-> s.current,
              options |-> [maxStackSize |-> DefaultMaxStackSize],
              undos |-> Fresh1(s), redos |-> Fresh2(s)],
     command |-> NoCommand,
     invoked |-> <<>>]

\* clear(state): a new State object with two new empty arrays
clear(h, s) ==
    [heap |-> [h EXCEPT ![Fresh1(s)] = <<>>, ![Fresh2(s)] = <<>>],
     threw |-> FALSE,
     ret |-> [current |-> s.current, options |-> s.options,
              undos |-> Fresh1(s), redos |-> Fresh2(s)],
     command |-> NoCommand,
     invoked |-> <<>>]

----------------------------------------------------------------------------
(* can *)

\* mutant: can.undo compares with >= 0
can_undo_always(h, s) == Len(h[s.undos]) >= 0

\* can.undo(state): state.undos.length > 0
can_undo(h, s) == Len(h[s.undos]) > 0

\* can.redo(state): state.redos.length > 0
can_redo(h, s) == Len(h[s.redos]) > 0

----------------------------------------------------------------------------
(* The caller *)

\* The caller holds one State; the arrays no held State refers to are
\* garbage.  Collect drops them and renames the references of the held State
\* s to 1 and 2, so that equal object graphs are equal states.
Collect(h, s) ==
    [r \in Refs |-> IF r = 1 THEN h[s.undos] ELSE IF r = 2 THEN h[s.redos] ELSE <<>>]

Held(s) == [s EXCEPT !.undos = 1, !.redos = 2]

\* the record of a call made with State s in heap h, with outcome r:
\* before: the value of s before the call; after: the value read through the
\* caller's reference to s once the call has ended; ret: the value of the
\* State returned
CallRecord(op, s, h, r) ==
    [op |-> op, before |-> Deep(s, h), after |-> Deep(s, r.heap),
     threw |-> r.threw, ret |-> Deep(r.ret, r.heap),
     command |-> r.command, invoked |-> r.invoked]

\* what is remembered of the call before the most recent one
Earlier(c) ==
    [op |-> c.op, before |-> c.before, threw |-> c.threw, command |-> c.command,
     ret |-> c.ret]

\* `state = op(state, ...)`: the assignment happens unless the call threw
Thread(op, r) ==
    LET s1 == IF r.threw THEN state ELSE r.ret
    IN  /\ state' = Held(s1)
        /\ heap' = Collect(r.heap, s1)
        /\ call' = CallRecord(op, state, heap, r)
        /\ prev' = Earlier(call)
        /\ reuse' = [again |-> reuse.kept, kept |-> r.threw \/ r.ret = state]

\* `const other = op(state, ...)`: the caller keeps `state` and puts the
\* result elsewhere
Apart(op, r) ==
    /\ state' = state
    /\ heap' = Collect(r.heap, state)
    /\ call' = CallRecord(op, state, heap, r)
    /\ prev' = Earlier(call)
    /\ reuse' = [again |-> reuse.kept, kept |-> TRUE]

\* The README example: execute increment(1), increment(2), increment(3),
\* then undo, undo, redo, clear
Readme ==
    <<[op |-> "execute", amount |-> 1], [op |-> "execute", amount |-> 2],
      [op |-> "execute", amount |-> 3], [op |-> "undo", amount |-> 0],
      [op |-> "undo", amount |-> 0], [op |-> "redo", amount |-> 0],
      [op |-> "clear", amount |-> 0]>>

\* the calls made are not a prefix of the README example
OffReadme == Len(Readme) + 1

\* the position in the README example after one more call
Follow(op, amount) ==
    IF readme < Len(Readme) /\ Readme[readme + 1] = [op |-> op, amount |-> amount]
    THEN readme + 1 ELSE OffReadme

\* the calls made are not of the shape of the maxStackSize test
OffTest == [phase |-> "off", m |-> 0, u |-> 0, r |-> 0]

Init ==
    /\ \E initial \in Values, options \in OptionsInputs :
        /\ state = createStack(initial, options)
        /\ created = [initial |-> initial, options |-> options]
    /\ heap = [r \in Refs |-> <<>>]
    /\ nextId = 1
    /\ call = [op |-> "createStack", before |-> Deep(state, heap),
               after |-> Deep(state, heap), threw |-> FALSE,
               ret |-> Deep(state, heap), command |-> NoCommand,
               invoked |-> <<>>]
    /\ prev = Earlier(call)
    /\ evicted = {}
    /\ readme = OffReadme
    /\ reuse = [again |-> FALSE, kept |-> FALSE]
    /\ progress = OffTest

\* state = execute(state, { execute: () => e, undo: () => u })
Execute ==
    /\ nextId <= MaxCmds
    /\ \E e \in Values, u \in Values, throws \in BOOLEAN :
        LET command == Command(nextId, Const(e), Const(u))
            r == execute(heap, state, command, throws)
            full == /\ ~throws
                    /\ Truthy(state.options.maxStackSize)
                    /\ Len(heap[state.undos]) = state.options.maxStackSize
        IN  /\ Thread("execute", r)
            /\ evicted' = IF full THEN evicted \cup {heap[state.undos][1].id}
                          ELSE evicted
    /\ nextId' = nextId + 1
    /\ UNCHANGED <<created, readme, progress>>

\* state = undo(state)
Undo ==
    /\ \E throws \in BOOLEAN : Thread("undo", undo(heap, state, throws))
    /\ UNCHANGED <<nextId, evicted, created, readme, progress>>

\* state = redo(state)
Redo ==
    /\ \E throws \in BOOLEAN : Thread("redo", redo(heap, state, throws))
    /\ UNCHANGED <<nextId, evicted, created, readme, progress>>

\* state = clear(state)
Clear ==
    /\ Thread("clear", clear(heap, state))
    /\ UNCHANGED <<nextId, evicted, created, readme, progress>>

Next == Execute \/ Undo \/ Redo \/ Clear

Spec == Init /\ [][Next]_vars

----------------------------------------------------------------------------
(* The README example: a counter whose commands read the caller's variable *)

\* const increment = (amount) => ({
\*   execute: () => ({ value: state.current.value + amount }),
\*   undo: () => ({ value: state.current.value - amount }) })
increment(id, amount) == Command(id, Rel(amount), Rel(0 - amount))

\* let state = createStack(initial, { maxStackSize: 10 }) with initial = { value: 0 }
InitReadme ==
    /\ created = [initial |-> 0, options |-> [set |-> TRUE, maxStackSize |-> 10]]
    /\ state = createStack(created.initial, created.options)
    /\ heap = [r \in Refs |-> <<>>]
    /\ nextId = 1
    /\ call = [op |-> "createStack", before |-> Deep(state, heap),
               after |-> Deep(state, heap), threw |-> FALSE,
               ret |-> Deep(state, heap), command |-> NoCommand,
               invoked |-> <<>>]
    /\ prev = Earlier(call)
    /\ evicted = {}
    /\ readme = 0
    /\ reuse = [again |-> FALSE, kept |-> FALSE]
    /\ progress = OffTest

\* state = execute(state, increment(amount))
ReadmeExecute ==
    /\ nextId <= MaxCmds
    /\ \E amount \in 1..MaxAmount :
        LET full == /\ Truthy(state.options.maxStackSize)
                    /\ Len(heap[state.undos]) = state.options.maxStackSize
        IN  /\ Thread("execute", execute(heap, state, increment(nextId, amount), FALSE))
            /\ evicted' = IF full THEN evicted \cup {heap[state.undos][1].id}
                          ELSE evicted
            /\ readme' = Follow("execute", amount)
    /\ nextId' = nextId + 1
    /\ UNCHANGED <<created, progress>>

\* state = undo(state)
ReadmeUndo ==
    /\ Thread("undo", undo(heap, state, FALSE))
    /\ readme' = Follow("undo", 0)
    /\ UNCHANGED <<nextId, evicted, created, progress>>

\* state = redo(state)
ReadmeRedo ==
    /\ Thread("redo", redo(heap, state, FALSE))
    /\ readme' = Follow("redo", 0)
    /\ UNCHANGED <<nextId, evicted, created, progress>>

\* state = clear(state)
ReadmeClear ==
    /\ Thread("clear", clear(heap, state))
    /\ readme' = Follow("clear", 0)
    /\ UNCHANGED <<nextId, evicted, created, progress>>

NextReadme == ReadmeExecute \/ ReadmeUndo \/ ReadmeRedo \/ ReadmeClear

SpecReadme == InitReadme /\ [][NextReadme]_vars

----------------------------------------------------------------------------
(* A caller that calls undo or redo on a State and keeps that State *)

\* const other = undo(state)
UndoApart ==
    /\ Apart("undo", undo(heap, state, FALSE))
    /\ UNCHANGED <<nextId, evicted, created, readme, progress>>

\* const other = redo(state)
RedoApart ==
    /\ Apart("redo", redo(heap, state, FALSE))
    /\ UNCHANGED <<nextId, evicted, created, readme, progress>>

NextShared == Next \/ UndoApart \/ RedoApart

SpecShared == Init /\ [][NextShared]_vars

----------------------------------------------------------------------------
(* The maxStackSize test: commands that produce i and invert to i - 1 *)

\* const value = i;
\* const command = { execute: () => ({ value }), undo: () => ({ value: value - 1 }) }
testCommand(i) == Command(i, Const(i), Const(i - 1))

\* let stack = createStack({ value: 0 }, { maxStackSize: n })
InitTest ==
    /\ \E n \in 1..MaxTestN :
        created = [initial |-> 0, options |-> [set |-> TRUE, maxStackSize |-> n]]
    /\ state = createStack(created.initial, created.options)
    /\ heap = [r \in Refs |-> <<>>]
    /\ nextId = 1
    /\ call = [op |-> "createStack", before |-> Deep(state, heap),
               after |-> Deep(state, heap), threw |-> FALSE,
               ret |-> Deep(state, heap), command |-> NoCommand,
               invoked |-> <<>>]
    /\ prev = Earlier(call)
    /\ evicted = {}
    /\ readme = OffReadme
    /\ reuse = [again |-> FALSE, kept |-> FALSE]
    /\ progress = [phase |-> "execute", m |-> 0, u |-> 0, r |-> 0]

\* stack = execute(stack, command)
TestExecute ==
    /\ nextId <= MaxTestCmds
    /\ LET full == /\ Truthy(state.options.maxStackSize)
                   /\ Len(heap[state.undos]) = state.options.maxStackSize
       IN  /\ Thread("execute", execute(heap, state, testCommand(nextId), FALSE))
           /\ evicted' = IF full THEN evicted \cup {heap[state.undos][1].id}
                         ELSE evicted
    /\ progress' =
          IF progress.phase = "execute"
          THEN [progress EXCEPT !.m = @ + 1]
          ELSE IF progress.phase = "redo"
                    /\ progress.r = state.options.maxStackSize
               THEN [progress EXCEPT !.phase = "done"]
               ELSE OffTest
    /\ nextId' = nextId + 1
    /\ UNCHANGED <<created, readme>>

\* stack = undo(stack)
TestUndo ==
    /\ Thread("undo", undo(heap, state, FALSE))
    /\ progress' =
          IF progress.phase \in {"execute", "undo"} /\ progress.u < MaxTestCmds
          THEN [progress EXCEPT !.phase = "undo", !.u = @ + 1]
          ELSE OffTest
    /\ UNCHANGED <<nextId, evicted, created, readme>>

\* stack = redo(stack)
TestRedo ==
    /\ Thread("redo", redo(heap, state, FALSE))
    /\ progress' =
          IF progress.phase \in {"undo", "redo"} /\ progress.r < MaxTestCmds
          THEN [progress EXCEPT !.phase = "redo", !.r = @ + 1]
          ELSE OffTest
    /\ UNCHANGED <<nextId, evicted, created, readme>>

NextTest == TestExecute \/ TestUndo \/ TestRedo

SpecTest == InitTest /\ [][NextTest]_vars

----------------------------------------------------------------------------
(* Properties *)

N == state.options.maxStackSize
undos == heap[state.undos]
redos == heap[state.redos]
InStacks(s) == Ids(s.undos) \cup Ids(s.redos)

\* C1: with a positive maxStackSize N, undos.length <= N and redos.length <= N
\* in every state reached by execute, undo, redo and clear.
C1_BoundedDepth ==
    N > 0 => Len(undos) <= N /\ Len(redos) <= N

\* a stack of maxStackSize 2 that has evicted a command and holds 2 redos
C1_Witness ==
    N = 2 /\ evicted # {} /\ Len(redos) = 2

\* C2: no transition mutates its input: the State passed to a call, read
\* through the reference the caller kept, has the same current, undos, redos
\* and options after the call as before it.
C2_InputUnchanged ==
    call.after = call.before

\* C3: execute returns a State whose redos is empty, whose current is the
\* value c.execute() returned and whose undos ends with c; a command undone
\* just before the execute is then in neither stack, and a redo that follows
\* the execute is a no-op.
C3_BranchInvalidation ==
    /\ (call.op = "execute" /\ ~call.threw) =>
          /\ call.ret.redos = <<>>
          /\ call.ret.current = Call(call.command.execute, call.before.current)
          /\ call.ret.undos # <<>>
          /\ Last(call.ret.undos) = call.command
    /\ (call.op = "execute" /\ ~call.threw /\ prev.op = "undo" /\ ~prev.threw
            /\ prev.command # NoCommand) =>
          /\ prev.command.id \notin InStacks(call.ret)
          /\ prev.command.id \notin Ids(undos) \cup Ids(redos)
    /\ (call.op = "redo" /\ prev.op = "execute" /\ ~prev.threw) =>
          /\ call.ret = call.before
          /\ call.invoked = <<>>

\* execute(op1), undo, execute(op2) has happened: the second execute found
\* op1 on the redo stack
C3_Witness ==
    /\ call.op = "execute" /\ ~call.threw
    /\ prev.op = "undo" /\ ~prev.threw /\ prev.command # NoCommand
    /\ Last(call.before.redos) = prev.command

\* C4: undo on an empty undos and redo on an empty redos return a State equal
\* to the input in current, undos, redos and options, invoke no callback and
\* raise no error.
C4_NoOpOnEmpty ==
    /\ (call.op = "undo" /\ call.before.undos = <<>>) =>
          /\ call.ret = call.before
          /\ Deep(state, heap) = call.before
          /\ call.invoked = <<>>
          /\ ~call.threw
    /\ (call.op = "redo" /\ call.before.redos = <<>>) =>
          /\ call.ret = call.before
          /\ Deep(state, heap) = call.before
          /\ call.invoked = <<>>
          /\ ~call.threw

\* undo was called on a State with no undos and some redos
C4_Witness ==
    call.op = "undo" /\ call.before.undos = <<>> /\ call.before.redos # <<>>

\* C5: when the callback a transition invokes fails, the input State still
\* holds the same commands in the same order in undos and in redos.
C5_FailureLeavesInput ==
    call.threw =>
        /\ call.after.undos = call.before.undos
        /\ call.after.redos = call.before.redos

\* C6: with maxStackSize 0 every push is evicted at once: undos and redos are
\* empty in every reachable state.
C6_ZeroKeepsNothing ==
    N = 0 => undos = <<>> /\ redos = <<>>

\* C7: when op.undo() returns s.current, undo(execute(s, op)) has current
\* equal to s.current, has op as the single entry of redos and does not have
\* op in undos.
C7_ExecuteUndoRoundTrip ==
    (/\ call.op = "undo" /\ ~call.threw
     /\ prev.op = "execute" /\ ~prev.threw
     /\ Call(prev.command.undo, call.before.current) = prev.before.current) =>
        /\ call.ret.current = prev.before.current
        /\ call.ret.redos = <<prev.command>>
        /\ prev.command.id \notin Ids(call.ret.undos)

\* the round trip from a State that holds undos, through a command that
\* changes the value
C7_Witness ==
    /\ call.op = "undo" /\ ~call.threw
    /\ prev.op = "execute" /\ ~prev.threw
    /\ Call(prev.command.undo, call.before.current) = prev.before.current
    /\ prev.before.undos # <<>>
    /\ call.before.current # prev.before.current

\* C8: when the last command of s.undos is deterministic (its execute()
\* returns s.current again), redo(undo(s)) has the current, the undos and the
\* redos s had before the undo.
C8_UndoRedoRoundTrip ==
    (/\ call.op = "redo" /\ ~call.threw
     /\ prev.op = "undo" /\ ~prev.threw
     /\ prev.before.undos # <<>>
     /\ Call(Last(prev.before.undos).execute, call.before.current)
            = prev.before.current) =>
        /\ call.ret.current = prev.before.current
        /\ call.ret.undos = prev.before.undos
        /\ call.ret.redos = prev.before.redos

\* the round trip from a State with two undos and a redo, through an undo
\* that changes the value
C8_Witness ==
    /\ call.op = "redo" /\ ~call.threw
    /\ prev.op = "undo" /\ ~prev.threw
    /\ Len(prev.before.undos) >= 2
    /\ prev.before.redos # <<>>
    /\ Call(Last(prev.before.undos).execute, call.before.current)
            = prev.before.current
    /\ call.before.current # prev.before.current

\* C9: clear returns a State with undos and redos empty and with the current
\* and the options of its input, and invokes no callback.
C9_Clear ==
    call.op = "clear" =>
        /\ call.ret.undos = <<>>
        /\ call.ret.redos = <<>>
        /\ call.ret.current = call.before.current
        /\ call.ret.options = call.before.options
        /\ call.invoked = <<>>
        /\ ~call.threw

\* clear was called on a State holding undos and redos
C9_Witness ==
    call.op = "clear" /\ call.before.undos # <<>> /\ call.before.redos # <<>>

\* C10: an execute on an undos already holding maxStackSize commands removes
\* exactly the front command, keeps the order of the others and puts the new
\* command last; a command evicted this way is in neither stack from then on.
C10_FifoEviction ==
    /\ (call.op = "execute" /\ ~call.threw
            /\ call.before.options.maxStackSize > 0
            /\ Len(call.before.undos) = call.before.options.maxStackSize) =>
          call.ret.undos = Append(Tail(call.before.undos), call.command)
    /\ evicted \cap (Ids(undos) \cup Ids(redos)) = {}

\* after an eviction from a stack of size 2, an undo has moved a command to
\* the redo stack
C10_Witness ==
    /\ N = 2 /\ evicted # {}
    /\ call.op = "undo" /\ ~call.threw
    /\ undos # <<>> /\ redos # <<>>

\* C11: createStack(v) without options yields current = v, empty undos and
\* redos and maxStackSize 10, and an explicit maxStackSize is kept as given;
\* can.undo is true exactly when undos is non-empty and can.redo exactly when
\* redos is non-empty, so both are false right after createStack and after
\* clear.
C11_InitialAndPredicates ==
    /\ call.op = "createStack" =>
          /\ Deep(state, heap) =
                [current |-> created.initial,
                 options |-> [maxStackSize |->
                                IF created.options.set
                                THEN created.options.maxStackSize ELSE 10],
                 undos |-> <<>>, redos |-> <<>>]
          /\ ~can_undo(heap, state) /\ ~can_redo(heap, state)
    /\ can_undo(heap, state) <=> undos # <<>>
    /\ can_redo(heap, state) <=> redos # <<>>
    /\ (call.op = "clear" /\ ~call.threw) =>
          ~can_undo(heap, state) /\ ~can_redo(heap, state)

\* a stack created without options on which can.redo is true and can.undo
\* is false
C11_Witness ==
    /\ ~created.options.set
    /\ N = 10
    /\ can_redo(heap, state) /\ ~can_undo(heap, state)

\* C12: the README counter: from { value: 0 }, executing +1, +2, +3 gives
\* current 6; the first undo gives 3, the second 1; one redo gives 3 with
\* 2 undos and 1 redo, so can.undo and can.redo are true; clear then gives
\* can.undo = can.redo = false with current still 3.
C12_ReadmeCounter ==
    /\ readme = 1 => state.current = 1
    /\ readme = 2 => state.current = 3
    /\ readme = 3 => state.current = 6
    /\ readme = 4 => state.current = 3
    /\ readme = 5 => state.current = 1
    /\ readme = 6 =>
          /\ state.current = 3
          /\ Len(undos) = 2 /\ Len(redos) = 1
          /\ can_undo(heap, state) /\ can_redo(heap, state)
    /\ readme = 7 =>
          /\ state.current = 3
          /\ ~can_undo(heap, state) /\ ~can_redo(heap, state)

\* the README example has run to its end
C12_Witness ==
    readme = Len(Readme) /\ call.op = "clear" /\ prev.op = "redo"

\* the State returned by the most recent call had it been made on a State
\* of value v, as the first call made on it
Alone(v) ==
    LET s == [current |-> v.current, options |-> v.options, undos |-> 1, redos |-> 2]
        h == [r \in Refs |-> IF r = 1 THEN v.undos ELSE IF r = 2 THEN v.redos ELSE <<>>]
        r == IF call.op = "execute" THEN execute(h, s, call.command, FALSE)
             ELSE IF call.op = "undo" THEN undo(h, s, FALSE)
             ELSE IF call.op = "redo" THEN redo(h, s, FALSE)
             ELSE clear(h, s)
    IN  Deep(r.ret, r.heap)

\* C13: the result of a transition applied to a State s is the same whether
\* or not an undo(s) or redo(s) was called on s before it; two undo(s) on the
\* same s return States with equal current, undos and redos.
C13_SameStateSameResult ==
    (/\ reuse.again
     /\ ~call.threw /\ ~prev.threw
     /\ prev.op \in {"undo", "redo"}) =>
        /\ call.ret = Alone(prev.before)
        /\ call.op = prev.op => call.ret = prev.ret

Reverse(s) == [i \in 1..Len(s) |-> s[Len(s) + 1 - i]]

\* the commands of a State in the order they were executed: the undos, then
\* the redos from the most recently undone
Line(s) == s.undos \o Reverse(s.redos)

\* C14: redo removes exactly the last command of redos, appends it to undos,
\* leaves the other redos in place and invokes the forward callback of that
\* command; undo and redo keep the executed order of the commands, so after
\* executing c1..ck (k <= maxStackSize) and j undos, j redos replay
\* c(k-j+1)..ck in that order and end with undos = [c1..ck], redos = [].
C14_RedoReplaysInOrder ==
    /\ (call.op = "redo" /\ ~call.threw /\ call.before.redos # <<>>) =>
          /\ call.ret.redos = Front(call.before.redos)
          /\ call.ret.undos = Append(call.before.undos, Last(call.before.redos))
          /\ call.invoked = <<Invocation(Last(call.before.redos), "execute")>>
    /\ (call.op \in {"undo", "redo"} /\ ~call.threw) =>
          Line(call.ret) = Line(call.before)
    /\ (call.op = "execute" /\ ~call.threw
            /\ (call.before.options.maxStackSize = 0
                \/ Len(call.before.undos) < call.before.options.maxStackSize)) =>
          Line(call.ret) = Append(call.before.undos, call.command)

\* the second of two redos in a row has emptied a redo stack of two commands
C14_Witness ==
    /\ call.op = "redo" /\ ~call.threw
    /\ prev.op = "redo" /\ ~prev.threw
    /\ Len(prev.before.redos) = 2
    /\ redos = <<>>
    /\ Len(undos) >= 2

\* C15: with maxStackSize N, after M > N executes on a fresh stack exactly N
\* undos take effect and every further undo is a no-op; current is then the
\* value the undo callback of the (M-N+1)-th command returns (M - N for
\* commands producing i and inverting to i - 1), not the initial value; with
\* N = 3 and M = 4, three undos leave 3 redos and current 1; and N redos
\* followed by one new execute leave undos.length = N.
C15_UndoReachAfterEviction ==
    /\ (progress.phase = "undo" /\ progress.m > N) =>
          /\ Len(redos) = (IF progress.u < N THEN progress.u ELSE N)
          /\ Len(undos) = (IF progress.u < N THEN N - progress.u ELSE 0)
          /\ progress.u > N =>
                /\ call.ret = call.before
                /\ call.invoked = <<>>
          /\ progress.u >= N =>
                /\ state.current = Call(testCommand(progress.m - N + 1).undo, 0)
                /\ state.current = progress.m - N
                /\ state.current # created.initial
    /\ (progress.phase = "undo" /\ N = 3 /\ progress.m = 4 /\ progress.u = 3) =>
          Len(redos) = 3 /\ state.current = 1
    /\ (progress.phase = "done" /\ progress.m > N /\ progress.u >= N) =>
          Len(undos) = N

\* the test has run to its end: 4 executes on a stack of size 3, 3 undos,
\* 3 redos and a new execute
C15_Witness ==
    /\ N = 3
    /\ progress = [phase |-> "done", m |-> 4, u |-> 3, r |-> 3]
    /\ evicted # {}

\* C16: each transition invokes at most one callback, once: execute invokes
\* the execute() of its command; undo on a non-empty undos invokes the undo()
\* of the last command of undos; redo on a non-empty redos invokes the
\* execute() of the last command of redos; clear and the no-op undo and redo
\* invoke none.
C16_CallbackDiscipline ==
    /\ Len(call.invoked) <= 1
    /\ call.op = "execute" =>
          /\ call.command.id = nextId - 1
          /\ call.invoked = <<Invocation(call.command, "execute")>>
          /\ ~call.threw =>
                call.ret.current = Call(call.command.execute, call.before.current)
    /\ (call.op = "undo" /\ call.before.undos # <<>>) =>
          /\ call.invoked = <<Invocation(Last(call.before.undos), "undo")>>
          /\ ~call.threw =>
                call.ret.current =
                    Call(Last(call.before.undos).undo, call.before.current)
    /\ (call.op = "redo" /\ call.before.redos # <<>>) =>
          /\ call.invoked = <<Invocation(Last(call.before.redos), "execute")>>
          /\ ~call.threw =>
                call.ret.current =
                    Call(Last(call.before.redos).execute, call.before.current)
    /\ (call.op = "undo" /\ call.before.undos = <<>>) => call.invoked = <<>>
    /\ (call.op = "redo" /\ call.before.redos = <<>>) => call.invoked = <<>>
    /\ call.op \in {"clear", "createStack"} => call.invoked = <<>>

\* redo has re-executed a command whose two callbacks return different
\* values, with another command below it on the redo stack
C16_Witness ==
    /\ call.op = "redo" /\ ~call.threw
    /\ Len(call.before.redos) >= 2
    /\ call.command.execute # call.command.undo
    /\ call.ret.current # call.before.current

\* C17: with a positive maxStackSize N, undos.length + redos.length <= N in
\* every state reached by execute, undo, redo and clear; so the eviction
\* branch of undo and of redo is never taken: a successful undo or redo moves
\* its command to the other stack and discards none.
C17_SumBounded ==
    /\ N > 0 => Len(undos) + Len(redos) <= N
    /\ (call.op = "undo" /\ ~call.threw /\ call.before.undos # <<>>) =>
          /\ call.before.options.maxStackSize > 0 =>
                Len(call.before.redos) + 1 <= call.before.options.maxStackSize
          /\ call.ret.redos = Append(call.before.redos, Last(call.before.undos))
          /\ InStacks(call.ret) = InStacks(call.before)
    /\ (call.op = "redo" /\ ~call.threw /\ call.before.redos # <<>>) =>
          /\ call.before.options.maxStackSize > 0 =>
                Len(call.before.undos) + 1 <= call.before.options.maxStackSize
          /\ call.ret.undos = Append(call.before.undos, Last(call.before.redos))
          /\ InStacks(call.ret) = InStacks(call.before)

\* an undo has filled the redo stack of a State of maxStackSize 2 that had
\* evicted a command
C17_Witness ==
    /\ N = 2 /\ evicted # {}
    /\ call.op = "undo" /\ ~call.threw
    /\ Len(call.ret.redos) = 2
    /\ prev.op = "undo" /\ ~prev.threw

\* the value the callback invoked by the most recent call returned
Returned ==
    LET i == call.invoked[1]
    IN  Call(IF i.fn = "execute" THEN call.command.execute ELSE call.command.undo,
             call.before.current)

\* C18: current is the value returned by the most recently invoked callback,
\* or the initial value given to createStack when none has returned yet: a
\* call whose callback returns sets current to that value, and every other
\* call (clear, a no-op undo or redo) leaves current as it was; options is in
\* every state what it was at creation.
C18_CurrentAndOptions ==
    /\ call.op = "createStack" => state.current = created.initial
    /\ (call.op # "createStack" /\ call.invoked # <<>> /\ ~call.threw) =>
          /\ call.command.id = call.invoked[1].id
          /\ state.current = Returned
    /\ (call.op # "createStack" /\ (call.invoked = <<>> \/ call.threw)) =>
          state.current = call.before.current
    /\ state.options =
          [maxStackSize |-> IF created.options.set
                            THEN created.options.maxStackSize ELSE 10]
    /\ call.ret.options = call.before.options

\* a no-op undo right after a clear, on a State of maxStackSize 1 whose
\* current is no longer the initial value
C18_Witness ==
    /\ call.op = "undo" /\ call.before.undos = <<>>
    /\ prev.op = "clear"
    /\ N = 1
    /\ state.current # created.initial

====
